---------------------------- MODULE Spec2Model ----------------------------
(***************************************************************************)
(* A model of history.py, the Local History plugin: the snapshot engine    *)
(* (HistorySave.process_history, run on one background thread per editor   *)
(* event), the browsing commands, delete-all, the path mirror get_file_dir *)
(* and the diff engine get_diff / ShowDiff.                                *)
(*                                                                         *)
(* Strings are sequences of one-character strings, so that slicing,        *)
(* searching and joining are computed as the code computes them.           *)
(***************************************************************************)
EXTENDS Integers, Sequences, FiniteSets, TLC

(***************************************************************************)
(* Bounds of the model.                                                    *)
(***************************************************************************)
\* Editor events (saves and closes) in one behaviour; each starts at most
\* one thread.
MaxEvents == 2
\* Clock ticks that may pass within one day of the behaviour.
MaxTicks == 2
\* Whole days the clock may jump forward.
MaxDays == 3
\* Clock ticks per second: two instants of one second can be told apart.
TicksPerSecond == 2
\* Largest history_retention setting (days) tried.
MaxRetention == 2
\* Longest file content (bytes) handed to the diff engine.
MaxDiffLen == 2

\* Seconds per day, the factor of process_history's retention test.
SecondsPerDay == 86400

(***************************************************************************)
(* String helpers (Python str operations on character sequences).          *)
(***************************************************************************)
\* s[i:] for a 0-based index i >= 0.
From(s, i) == SubSeq(s, i + 1, Len(s))

\* s[:i] for a 0-based index i >= 0.
Upto(s, i) == SubSeq(s, 1, IF i > Len(s) THEN Len(s) ELSE i)

\* s.startswith(p)
StartsWith(s, p) == Len(p) <= Len(s) /\ SubSeq(s, 1, Len(p)) = p

\* s.endswith(p)
EndsWith(s, p) == Len(p) <= Len(s) /\ SubSeq(s, Len(s) - Len(p) + 1, Len(s)) = p

\* s.find(c, start): 0-based index of the first c at or after start, or -1.
Find(s, c, start) ==
    LET hits == {i \in (start + 1)..Len(s) : s[i] = c}
    IN  IF hits = {} THEN -1
        ELSE (CHOOSE i \in hits : \A j \in hits : i <= j) - 1

\* s.rfind(c): 0-based index of the last c, or -1.
RFind(s, c) ==
    LET hits == {i \in 1..Len(s) : s[i] = c}
    IN  IF hits = {} THEN -1
        ELSE (CHOOSE i \in hits : \A j \in hits : i >= j) - 1

\* s.rstrip(c)
RECURSIVE RStrip(_, _)
RStrip(s, c) ==
    IF s # <<>> /\ s[Len(s)] = c THEN RStrip(SubSeq(s, 1, Len(s) - 1), c) ELSE s

\* s.replace(c, '', 1): the first occurrence of c removed.
RemoveFirst(s, c) ==
    LET i == Find(s, c, 0)
    IN  IF i = -1 THEN s ELSE Upto(s, i) \o From(s, i + 1)

\* s consists of the character c only (s == c * len(s)).
AllChar(s, c) == \A i \in 1..Len(s) : s[i] = c

(***************************************************************************)
(* os.path on POSIX (posixpath) and on Windows (ntpath).                   *)
(***************************************************************************)
SLASH == "/"
BSLASH == "\\"
COLON == ":"

\* posixpath.dirname, given the head up to the last separator: it loses its
\* trailing separators unless it consists of them.
posix_head(head) ==
    IF head # <<>> /\ ~AllChar(head, SLASH) THEN RStrip(head, SLASH) ELSE head

\* posixpath.dirname
posix_dirname(p) == posix_head(Upto(p, RFind(p, SLASH) + 1))

\* posixpath.basename
posix_basename(p) == From(p, RFind(p, SLASH) + 1)

\* posixpath.join(a, b)
posix_join(a, b) ==
    IF StartsWith(b, <<SLASH>>) THEN b
    ELSE IF a = <<>> \/ EndsWith(a, <<SLASH>>) THEN a \o b
    ELSE a \o <<SLASH>> \o b

\* ntpath.splitdrive of a UNC path whose first separator after the two
\* leading ones is at index, the next one at index2 (-1 when there is none).
nt_unc_split(p, index, index2) ==
    IF index = -1 \/ index2 = index + 1 THEN << <<>>, p >>
    ELSE IF index2 = -1 THEN << p, <<>> >>
    ELSE << Upto(p, index2), From(p, index2) >>

\* ntpath.splitdrive (paths written with backslashes): <<drive, rest>>.
nt_splitdrive(p) ==
    IF Len(p) >= 2 /\ Upto(p, 2) = <<BSLASH, BSLASH>> /\ Upto(From(p, 2), 1) # <<BSLASH>>
    THEN nt_unc_split(p, Find(p, BSLASH, 2), Find(p, BSLASH, Find(p, BSLASH, 2) + 1))
    ELSE IF Len(p) >= 2 /\ p[2] = COLON THEN << Upto(p, 2), From(p, 2) >>
    ELSE << <<>>, p >>

\* ntpath.split(p)[0], given the drive and the head of the rest: the head
\* loses its trailing separators unless it consists of them.
nt_head(drive, head) ==
    drive \o (IF RStrip(head, BSLASH) # <<>> THEN RStrip(head, BSLASH) ELSE head)

nt_split_head(dp) == nt_head(dp[1], Upto(dp[2], RFind(dp[2], BSLASH) + 1))

\* ntpath.dirname: ntpath.split(p)[0].
nt_dirname(p) == nt_split_head(nt_splitdrive(p))

\* ntpath.join, given the split paths: the <<drive, path>> of the result.
nt_join_parts(ra, rb) ==
    LET absolute == rb[2] # <<>> /\ rb[2][1] = BSLASH
        sep(x) == IF x # <<>> /\ x[Len(x)] # BSLASH THEN x \o <<BSLASH>> ELSE x
    IN  IF absolute /\ (rb[1] # <<>> \/ ra[1] = <<>>) THEN rb
        ELSE IF absolute THEN << ra[1], rb[2] >>
        ELSE IF rb[1] # <<>> /\ rb[1] # ra[1] THEN rb
        ELSE << ra[1], sep(ra[2]) \o rb[2] >>

\* ntpath.join's last step: a separator between a UNC drive and a relative
\* path.
nt_join_drive(res) ==
    IF res[2] # <<>> /\ res[2][1] # BSLASH /\ res[1] # <<>>
       /\ res[1][Len(res[1])] # COLON
    THEN res[1] \o <<BSLASH>> \o res[2]
    ELSE res[1] \o res[2]

\* ntpath.join(a, b)
nt_join(a, b) == nt_join_drive(nt_join_parts(nt_splitdrive(a), nt_splitdrive(b)))

\* os.path.dirname / os.path.join / os.sep of the platform the plugin runs on.
os_dirname(system, p) == IF system = "Windows" THEN nt_dirname(p) ELSE posix_dirname(p)

os_join(system, a, b) == IF system = "Windows" THEN nt_join(a, b) ELSE posix_join(a, b)

os_sep(system) == IF system = "Windows" THEN BSLASH ELSE SLASH

(***************************************************************************)
(* get_file_dir: the backup directory of a file under the history root.    *)
(***************************************************************************)
\* A variant of the Windows branch that drops the drive letter with its
\* colon.
windows_trim_no_drive(file_dir) ==
    LET d1 == IF Find(file_dir, BSLASH, 0) = 0 THEN From(file_dir, 2) ELSE file_dir
    IN  IF Find(d1, COLON, 0) = 1 THEN From(d1, 3) ELSE d1

\* The Windows branch: the leading two characters go when the directory
\* starts with a separator, then the first colon goes when it is the
\* second character.
windows_trim(file_dir) ==
    LET d1 == IF Find(file_dir, BSLASH, 0) = 0 THEN From(file_dir, 2) ELSE file_dir
    IN  IF Find(d1, COLON, 0) = 1 THEN RemoveFirst(d1, COLON) ELSE d1

\* The other platforms: file_dir[1:].
posix_trim(file_dir) == From(file_dir, 1)

\* Lines 42-48: the root marker goes.
trim_root(system, file_dir) ==
    IF system = "Windows" THEN windows_trim(file_dir) ELSE posix_trim(file_dir)

get_file_dir(system, file_path, history_path) ==
    os_join(system, history_path, trim_root(system, os_dirname(system, file_path)))

(***************************************************************************)
(* The environment of the snapshot engine: the edited files, the settings  *)
(* and the history tree on disk.                                           *)
(***************************************************************************)
\* platform.system() of the machine the engine's behaviours are explored on.
System == "Linux"

\* The history_path setting.
HistoryPath == <<"/", "h">>

\* Two edited files of one directory; the second's base name ends with the
\* first's.
FileA == <<"/", "d", "/", "a">>
FileB == <<"/", "d", "/", "b", "a">>
Files == {FileA, FileB}

\* File contents: byte sequences; the size of a file is its length.
ContentX == <<"x">>
ContentY == <<"y">>
ContentXY == <<"x", "y">>
Contents == {ContentX, ContentY, ContentXY}

\* The file_size_limit settings tried (bytes).
SizeLimits == {1}

\* The history_retention settings tried (days).
Retentions == 0..MaxRetention

NO_HISTORY_MSG == "No local history found"
NO_INCREMENTAL_DIFF == "No incremental diff found"
HISTORY_DELETED_MSG == "All local history deleted"

TicksPerDay == SecondsPerDay * TicksPerSecond

VARIABLES
    clock,      \* the system time, in ticks
    S,          \* the settings: history_on_close, file_size_limit, history_retention
    files,      \* per edited file: its content and modification time on disk
    dirs,       \* the directories that exist at or below the history root
    store,      \* the snapshot files: <<directory, timestamp, base name>> -> content, mtime, inode
    runs,       \* the process_history threads started so far, in start order
    events,     \* the number of editor events (saves and closes) so far
    ui,         \* the outcome of the last command run on the editor's thread
    wiped,      \* delete-all has completed and nothing was written to the tree since
    pathIn,     \* an input of get_file_dir
    pathOut,    \* its result
    diffIn,     \* the two files handed to ShowDiff
    diffOut,    \* the diff and the text ShowDiff put in the view
    selected    \* <<index>> once the quick panel has called on_done(index)

engineVars == <<clock, S, files, dirs, store, runs, events, ui, wiped>>
pathVars == <<pathIn, pathOut>>
diffVars == <<diffIn, diffOut>>
vars == <<clock, S, files, dirs, store, runs, events, ui, wiped, pathIn, pathOut, diffIn, diffOut,
          selected>>

NoStore == [k \in {} |-> 0]
NoUi == [cmd |-> "", file |-> <<>>, status |-> "", panel |-> <<>>, shown |-> FALSE,
         error |-> "", afterWipe |-> FALSE]
NoPathIn == [system |-> "", file_path |-> <<>>, history_path |-> <<>>]
NoDiffIn == [py2 |-> FALSE, from_file |-> <<>>, to_file |-> <<>>, from_bytes |-> <<>>,
             to_bytes |-> <<>>]
NoDiffOut == [done |-> FALSE, diff |-> <<>>, view |-> <<>>]

\* os.path.basename(file_path) and get_file_dir(file_path, history_path) of
\* an edited file.
FileName(f) == posix_basename(f)

HistoryDir(f) == get_file_dir(System, f, HistoryPath)

\* The snapshot files' paths.
Keys == DOMAIN store

\* glob.glob(os.path.join(history_dir, '*' + file_name)): the files of the
\* directory whose name ends with file_name. A snapshot's name is its
\* timestamp text, a dot and a base name; the file names of the model hold
\* no character of a timestamp text, so a name ends with file_name exactly
\* when '.' + base name does.
GlobMatches(file_name, k) == EndsWith(<<".">> \o k[3], file_name)

Glob(history_dir, file_name) ==
    {k \in Keys : k[1] = history_dir /\ GlobMatches(file_name, k)}

\* The sequences over a set of keys that hold each key once.
Orders(ks) ==
    {q \in [1..Cardinality(ks) -> ks] : \A i, j \in DOMAIN q : i # j => q[i] # q[j]}

\* history_files.sort(key=getmtime, reverse=True): newest first; files of
\* equal modification time stay in the order glob gave, which is the
\* directory's own order, any.
SortedNewestFirst(ks) ==
    {q \in Orders(ks) : \A i, j \in DOMAIN q : i < j => store[q[i]].mtime >= store[q[j]].mtime}

\* filecmp.cmp(f1, f2), shallow: files of equal size and modification time
\* are taken to be equal; files of different size are different; the rest
\* are compared byte by byte.
filecmp_cmp(f1, f2) ==
    IF Len(f1.content) = Len(f2.content) /\ f1.mtime = f2.mtime THEN TRUE
    ELSE IF Len(f1.content) # Len(f2.content) THEN FALSE
    ELSE f1.content = f2.content

\* A variant of the size gate that takes the limit in kilobytes.
ExceedsLimitKB(size, file_size_limit) == size > file_size_limit * 1024

\* os.path.getsize(file_path) > file_size_limit
ExceedsLimit(size, file_size_limit) == size > file_size_limit

\* A variant of the age test that takes the retention in seconds.
ExpiredSeconds(mtime, now, history_retention) ==
    mtime < now - history_retention * TicksPerSecond

\* os.path.getmtime(file) < now - history_retention * 86400, in ticks.
Expired(mtime, now, history_retention) ==
    mtime < now - history_retention * SecondsPerDay * TicksPerSecond

\* dt.now().strftime('%Y-%m-%d_%H.%M.%S'): the time to the second. The text
\* is fixed-width, so it is modelled by the number of the second.
Timestamp(now) == now \div TicksPerSecond

\* os.makedirs(history_dir): the directory and its missing ancestors.
MakeDirs(d) ==
    {Upto(d, i) : i \in {j \in Len(HistoryPath)..Len(d) : j = Len(d) \/ d[j + 1] = SLASH}}

\* What an earlier session of the editor left in the history tree: FileA
\* was saved at tick 0 and its snapshot written one tick later.
EarlierSnapshot == <<HistoryDir(FileA), 0, FileName(FileA)>>

EarlierStore ==
    [k \in {EarlierSnapshot} |-> [content |-> ContentX, mtime |-> 1, ino |-> 0]]

\* The plugin is loaded with the settings as they are, the edited files on
\* disk, and a history tree that does not exist yet or holds what an
\* earlier session left.
EngineInit ==
    /\ S \in [history_on_close : BOOLEAN, file_size_limit : SizeLimits,
              history_retention : Retentions]
    /\ files = [f \in Files |-> [content |-> ContentX, mtime |-> 0]]
    /\ \/ clock = 0 /\ dirs = {} /\ store = NoStore
       \/ clock = 1 /\ dirs = MakeDirs(HistoryDir(FileA)) /\ store = EarlierStore
    /\ runs = <<>>
    /\ events = 0
    /\ ui = NoUi
    /\ wiped = FALSE

(***************************************************************************)
(* HistorySave: the event handlers and the steps of a process_history     *)
(* thread. A thread's record holds its argument, its position and its      *)
(* locals (history_files, the loop index, now, the new snapshot's path and  *)
(* the inode copyfile opened), and what the properties need of its past:   *)
(* the file's content at the event (saved),                                *)
(* the size the gate read (gsize), the snapshots its sweep removed and     *)
(* those it kept, with the modification times it read (removed, kept), and *)
(* whether every earlier thread had ended when it started (alone).         *)
(***************************************************************************)
\* The positions at which a thread has ended: the three returns of
\* process_history, and the two ways it ends in an exception.
Returned == {"too_large", "identical", "stored"}
Raised == {"TypeError", "OSError"}
Ended == Returned \cup Raised

NewRun(f, trigger, pc, content) ==
    [file |-> f, trigger |-> trigger, pc |-> pc, list |-> <<>>, i |-> 0, now |-> 0,
     key |-> <<>>, ino |-> 0, saved |-> content, gsize |-> 0,
     removed |-> {}, kept |-> {}, alone |-> \A r \in DOMAIN runs : runs[r].pc \in Ended]

\* A file is written by the editor's save, which then fires on_post_save: a
\* thread runs process_history with the four arguments unless
\* history_on_close is set.
Save(f, c) ==
    /\ events < MaxEvents
    /\ events' = events + 1
    /\ files' = [files EXCEPT ![f] = [content |-> c, mtime |-> clock]]
    /\ runs' = IF S.history_on_close THEN runs
               ELSE Append(runs, NewRun(f, "post_save", "size", c))
    /\ UNCHANGED <<pathVars, diffVars, selected, clock, S, dirs, store, ui, wiped>>

\* on_close: with history_on_close set, a thread is started on
\* process_history with the file name alone; the call lacks three of the
\* four positional arguments and the thread ends in a TypeError before the
\* first statement of process_history.
Close(f) ==
    /\ events < MaxEvents
    /\ events' = events + 1
    /\ runs' = IF S.history_on_close
               THEN Append(runs, NewRun(f, "close", "TypeError", files[f].content))
               ELSE runs
    /\ UNCHANGED <<pathVars, diffVars, selected, clock, S, files, dirs, store, ui, wiped>>

Step(r, rec) == runs' = [runs EXCEPT ![r] = rec]

\* A variant of the size gate that creates the backup directory before it
\* looks at the size.
SizeGateAfterMakeDir(r) ==
    LET run == runs[r]
        size == Len(files[run.file].content)
    IN  /\ run.pc = "size"
        /\ dirs' = dirs \cup MakeDirs(HistoryDir(run.file))
        /\ Step(r, [run EXCEPT !.gsize = size,
                               !.pc = IF ExceedsLimit(size, S.file_size_limit)
                                      THEN "too_large" ELSE "mkdir"])
        /\ wiped' = FALSE
        /\ UNCHANGED <<pathVars, diffVars, selected, clock, S, files, store, events, ui>>

\* Lines 111-114: the size gate.
SizeGate(r) ==
    LET run == runs[r]
        size == Len(files[run.file].content)
    IN  /\ run.pc = "size"
        /\ Step(r, [run EXCEPT !.gsize = size,
                               !.pc = IF ExceedsLimit(size, S.file_size_limit)
                                      THEN "too_large" ELSE "mkdir"])
        /\ wiped' = FALSE
        /\ UNCHANGED <<pathVars, diffVars, selected, clock, S, files, dirs, store, events, ui>>

\* Lines 117-121: the backup directory is created when it does not exist.
MakeDir(r) ==
    LET run == runs[r]
        history_dir == HistoryDir(run.file)
    IN  /\ run.pc = "mkdir"
        /\ dirs' = IF history_dir \in dirs THEN dirs ELSE dirs \cup MakeDirs(history_dir)
        /\ Step(r, [run EXCEPT !.pc = "list"])
        /\ wiped' = FALSE
        /\ UNCHANGED <<pathVars, diffVars, selected, clock, S, files, store, events, ui>>

\* Lines 124-128: the snapshots are listed and sorted newest first; with
\* none, the comparison is skipped.
ListHistory(r) ==
    LET run == runs[r]
        found == Glob(HistoryDir(run.file), FileName(run.file))
    IN  /\ run.pc = "list"
        /\ \E history_files \in SortedNewestFirst(found) :
              Step(r, [run EXCEPT !.list = history_files,
                                  !.pc = IF history_files # <<>> THEN "cmp" ELSE "copy"])
        /\ wiped' = FALSE
        /\ UNCHANGED <<pathVars, diffVars, selected, clock, S, files, dirs, store, events, ui>>

\* Lines 129-130: the file is compared with the newest snapshot listed;
\* os.stat raises when that snapshot is gone.
Compare(r) ==
    LET run == runs[r]
        newest == run.list[1]
    IN  /\ run.pc = "cmp"
        /\ Step(r, [run EXCEPT !.pc = IF newest \notin Keys THEN "OSError"
                                      ELSE IF filecmp_cmp(files[run.file], store[newest])
                                      THEN "identical" ELSE "copy"])
        /\ wiped' = FALSE
        /\ UNCHANGED <<pathVars, diffVars, selected, clock, S, files, dirs, store, events, ui>>

\* Lines 133-134, first half: the name is made of the time to the second,
\* and copyfile opens the destination for writing, which creates it empty
\* or empties the file that has this name; it raises when the directory is
\* gone.
CopyOpen(r) ==
    LET run == runs[r]
        history_dir == HistoryDir(run.file)
        new_file == <<history_dir, Timestamp(clock), FileName(run.file)>>
        inode == IF new_file \in Keys THEN store[new_file].ino ELSE r
    IN  /\ run.pc = "copy"
        /\ IF history_dir \notin dirs
           THEN /\ Step(r, [run EXCEPT !.pc = "OSError"])
                /\ store' = store
           ELSE /\ Step(r, [run EXCEPT !.pc = "write", !.key = new_file, !.ino = inode])
                /\ store' = [k \in Keys \cup {new_file} |->
                               IF k = new_file
                               THEN [content |-> <<>>, mtime |-> clock, ino |-> inode]
                               ELSE store[k]]
        /\ wiped' = FALSE
        /\ UNCHANGED <<pathVars, diffVars, selected, clock, S, files, dirs, events, ui>>

\* Line 134, second half: copyfile writes the file's content to the inode
\* it opened, which is the file of that name unless the name was removed
\* meanwhile.
CopyWrite(r) ==
    LET run == runs[r]
    IN  /\ run.pc = "write"
        /\ store' = IF run.key \in Keys /\ store[run.key].ino = run.ino
                    THEN [store EXCEPT ![run.key] =
                            [content |-> files[run.file].content, mtime |-> clock,
                             ino |-> run.ino]]
                    ELSE store
        /\ Step(r, [run EXCEPT !.i = 1,
                               !.pc = IF run.list # <<>> THEN "sweep" ELSE "stored"])
        /\ wiped' = FALSE
        /\ UNCHANGED <<pathVars, diffVars, selected, clock, S, files, dirs, events, ui>>

\* A variant of the sweep with a floor: the newest listed snapshot is kept
\* whatever its age.
SweepKeepsNewest(r) ==
    LET run == runs[r]
        file == run.list[run.i]
        now == IF run.i = 1 THEN clock ELSE run.now
        last == run.i = Len(run.list)
    IN  /\ run.pc = "sweep"
        /\ IF file \notin Keys
           THEN /\ Step(r, [run EXCEPT !.now = now, !.pc = "OSError"])
                /\ store' = store
           ELSE IF run.i # 1 /\ Expired(store[file].mtime, now, S.history_retention)
           THEN /\ Step(r, [run EXCEPT !.now = now, !.i = run.i + 1,
                                       !.removed = run.removed \cup {<<file, store[file].mtime>>},
                                       !.pc = IF last THEN "stored" ELSE "sweep"])
                /\ store' = [k \in Keys \ {file} |-> store[k]]
           ELSE /\ Step(r, [run EXCEPT !.now = now, !.i = run.i + 1,
                                       !.kept = run.kept \cup {<<file, store[file].mtime>>},
                                       !.pc = IF last THEN "stored" ELSE "sweep"])
                /\ store' = store
        /\ wiped' = FALSE
        /\ UNCHANGED <<pathVars, diffVars, selected, clock, S, files, dirs, events, ui>>

\* Lines 137-141: now is read once; each listed file is stat'ed, which
\* raises when it is gone, and removed when it is older than the retention.
Sweep(r) ==
    LET run == runs[r]
        file == run.list[run.i]
        now == IF run.i = 1 THEN clock ELSE run.now
        last == run.i = Len(run.list)
    IN  /\ run.pc = "sweep"
        /\ IF file \notin Keys
           THEN /\ Step(r, [run EXCEPT !.now = now, !.pc = "OSError"])
                /\ store' = store
           ELSE IF Expired(store[file].mtime, now, S.history_retention)
           THEN /\ Step(r, [run EXCEPT !.now = now, !.i = run.i + 1,
                                       !.removed = run.removed \cup {<<file, store[file].mtime>>},
                                       !.pc = IF last THEN "stored" ELSE "sweep"])
                /\ store' = [k \in Keys \ {file} |-> store[k]]
           ELSE /\ Step(r, [run EXCEPT !.now = now, !.i = run.i + 1,
                                       !.kept = run.kept \cup {<<file, store[file].mtime>>},
                                       !.pc = IF last THEN "stored" ELSE "sweep"])
                /\ store' = store
        /\ wiped' = FALSE
        /\ UNCHANGED <<pathVars, diffVars, selected, clock, S, files, dirs, events, ui>>

\* Time passes: by a tick, or by a day. A thread lives for less than a day:
\* the day turns only between threads.
Tick ==
    /\ clock % TicksPerDay < MaxTicks
    /\ clock' = clock + 1
    /\ UNCHANGED <<pathVars, diffVars, selected, S, files, dirs, store, runs, events, ui, wiped>>

NextDay ==
    /\ clock \div TicksPerDay < MaxDays
    /\ \A r \in DOMAIN runs : runs[r].pc \in Ended
    /\ clock' = clock + TicksPerDay
    /\ UNCHANGED <<pathVars, diffVars, selected, S, files, dirs, store, runs, events, ui, wiped>>

(***************************************************************************)
(* The commands, each run to its end on the editor's thread.               *)
(***************************************************************************)
Outcome(cmd, f, status, panel, shown, error) ==
    [cmd |-> cmd, file |-> f, status |-> status, panel |-> panel, shown |-> shown,
     error |-> error, afterWipe |-> wiped]

\* A variant of the command that reports the deletion and leaves the tree.
HistoryDeleteAllKeepsTree ==
    /\ HistoryPath \in dirs
    /\ wiped' = TRUE
    /\ ui' = Outcome("delete_all", <<>>, HISTORY_DELETED_MSG, <<>>, FALSE, "")
    /\ UNCHANGED <<pathVars, diffVars, selected, clock, S, files, dirs, store, runs, events>>

\* HistoryDeleteAll.run: shutil.rmtree(get_history_path()) raises when the
\* root directory does not exist, and the status message is then not
\* reached; otherwise the whole tree goes.
HistoryDeleteAll ==
    IF HistoryPath \notin dirs
    THEN /\ ui' = Outcome("delete_all", <<>>, "", <<>>, FALSE, "OSError")
         /\ UNCHANGED <<pathVars, diffVars, selected, clock, S, files, dirs, store, runs, events, wiped>>
    ELSE /\ dirs' = {}
         /\ store' = NoStore
         /\ wiped' = TRUE
         /\ ui' = Outcome("delete_all", <<>>, HISTORY_DELETED_MSG, <<>>, FALSE, "")
         /\ UNCHANGED <<pathVars, diffVars, selected, clock, S, files, runs, events>>

\* HistoryOpen.run up to the quick panel.
HistoryOpen(f) ==
    LET history_dir == HistoryDir(f)
    IN  /\ IF history_dir \notin dirs
           THEN ui' = Outcome("open", f, NO_HISTORY_MSG, <<>>, FALSE, "")
           ELSE \E history_files \in SortedNewestFirst(Glob(history_dir, FileName(f))) :
                   ui' = IF history_files = <<>>
                         THEN Outcome("open", f, NO_HISTORY_MSG, <<>>, FALSE, "")
                         ELSE Outcome("open", f, "", history_files, TRUE, "")
        /\ UNCHANGED <<pathVars, diffVars, selected, clock, S, files, dirs, store, runs, events, wiped>>

\* HistoryCompare.run up to the quick panel: the newest snapshot is left out.
HistoryCompare(f) ==
    /\ \E listed \in SortedNewestFirst(Glob(HistoryDir(f), FileName(f))) :
          LET history_files == Tail(listed)
          IN  ui' = IF listed = <<>> \/ history_files = <<>>
                    THEN Outcome("compare", f, NO_HISTORY_MSG, <<>>, FALSE, "")
                    ELSE Outcome("compare", f, "", history_files, TRUE, "")
    /\ UNCHANGED <<pathVars, diffVars, selected, clock, S, files, dirs, store, runs, events, wiped>>

\* HistoryIncrementalDiff.run up to the quick panel.
HistoryIncrementalDiff(f) ==
    /\ \E history_files \in SortedNewestFirst(Glob(HistoryDir(f), FileName(f))) :
          ui' = IF Len(history_files) < 2
                THEN Outcome("incremental_diff", f, NO_INCREMENTAL_DIFF, <<>>, FALSE, "")
                ELSE Outcome("incremental_diff", f, "", history_files, TRUE, "")
    /\ UNCHANGED <<pathVars, diffVars, selected, clock, S, files, dirs, store, runs, events, wiped>>

(***************************************************************************)
(* The engine's specification.                                             *)
(***************************************************************************)
PureIdle ==
    /\ pathIn = NoPathIn
    /\ pathOut = <<>>
    /\ diffIn = NoDiffIn
    /\ diffOut = NoDiffOut
    /\ selected = <<>>

Init == EngineInit /\ PureIdle

Next ==
    \/ \E f \in Files, c \in Contents : Save(f, c)
    \/ \E f \in Files : Close(f)
    \/ \E r \in DOMAIN runs : SizeGate(r)
    \/ \E r \in DOMAIN runs : MakeDir(r)
    \/ \E r \in DOMAIN runs : ListHistory(r)
    \/ \E r \in DOMAIN runs : Compare(r)
    \/ \E r \in DOMAIN runs : CopyOpen(r)
    \/ \E r \in DOMAIN runs : CopyWrite(r)
    \/ \E r \in DOMAIN runs : Sweep(r)
    \/ Tick
    \/ NextDay
    \/ HistoryDeleteAll

Spec == Init /\ [][Next]_vars

(***************************************************************************)
(* The commands' specification: the engine with save-time snapshots and a  *)
(* retention of one day, within one day, and the commands run at any       *)
(* moment between the threads' steps.                                      *)
(***************************************************************************)
UiInit ==
    /\ Init
    /\ ~S.history_on_close
    /\ S.history_retention = 1

UiNext ==
    \/ \E f \in Files, c \in Contents : Save(f, c)
    \/ \E f \in Files : Close(f)
    \/ \E r \in DOMAIN runs : SizeGate(r)
    \/ \E r \in DOMAIN runs : MakeDir(r)
    \/ \E r \in DOMAIN runs : ListHistory(r)
    \/ \E r \in DOMAIN runs : Compare(r)
    \/ \E r \in DOMAIN runs : CopyOpen(r)
    \/ \E r \in DOMAIN runs : CopyWrite(r)
    \/ \E r \in DOMAIN runs : Sweep(r)
    \/ Tick
    \/ HistoryDeleteAll
    \/ \E f \in Files : HistoryOpen(f)
    \/ \E f \in Files : HistoryCompare(f)
    \/ \E f \in Files : HistoryIncrementalDiff(f)

SpecUi == UiInit /\ [][UiNext]_vars

(***************************************************************************)
(* The path mirror on its own: get_file_dir applied to file paths of the   *)
(* platform's style.                                                       *)
(***************************************************************************)
\* Deepest directory nesting of the file paths tried.
MaxDepth == 3

Home == <<"h", "o", "m", "e">>
Users == <<"U", "s", "e", "r", "s">>
U == <<"u">>
Proj == <<"p", "r", "o", "j">>
DirNames == {Home, Users, U, Proj}
ATxt == <<"a", ".", "t", "x", "t">>
Root == <<"r", "o", "o", "t">>
DriveC == <<"C", COLON>>

\* sep.join(parts)
RECURSIVE JoinAll(_, _)
JoinAll(parts, sep) ==
    IF parts = <<>> THEN <<>>
    ELSE IF Len(parts) = 1 THEN parts[1]
    ELSE parts[1] \o <<sep>> \o JoinAll(Tail(parts), sep)

DirSeqs == UNION {[1..n -> DirNames] : n \in 0..MaxDepth}

\* /<dirs>/a.txt, C:\<dirs>\a.txt and \\<dirs>\a.txt
PosixPath(ds) == <<SLASH>> \o JoinAll(Append(ds, ATxt), SLASH)

DrivePath(ds) == DriveC \o <<BSLASH>> \o JoinAll(Append(ds, ATxt), BSLASH)

UncPath(ds) == <<BSLASH, BSLASH>> \o JoinAll(Append(ds, ATxt), BSLASH)

PosixRoot == <<SLASH>> \o Root
WindowsRoot == DriveC \o <<BSLASH>> \o Root

PathInputs ==
    {[system |-> sys, style |-> "posix", dirs |-> ds, file_path |-> PosixPath(ds),
      history_path |-> PosixRoot] : sys \in {"Linux", "Darwin"}, ds \in DirSeqs}
    \cup
    {[system |-> "Windows", style |-> "drive", dirs |-> ds, file_path |-> DrivePath(ds),
      history_path |-> WindowsRoot] : ds \in DirSeqs}
    \cup
    {[system |-> "Windows", style |-> "unc", dirs |-> ds, file_path |-> UncPath(ds),
      history_path |-> WindowsRoot] : ds \in {d \in DirSeqs : Len(d) >= 2}}

PathInit ==
    /\ pathIn \in PathInputs
    /\ pathOut = <<>>
    /\ diffIn = NoDiffIn
    /\ diffOut = NoDiffOut
    /\ selected = <<>>
    /\ EngineInit
    /\ clock = 0
    /\ ~S.history_on_close
    /\ S.history_retention = 0

\* get_file_dir(file_path, history_path) is called.
Resolve ==
    /\ pathOut = <<>>
    /\ pathOut' = get_file_dir(pathIn.system, pathIn.file_path, pathIn.history_path)
    /\ UNCHANGED <<pathIn, diffIn, diffOut, selected, clock, S, files, dirs, store, runs, events, ui,
                   wiped>>

SpecPath == PathInit /\ [][Resolve]_vars

(***************************************************************************)
(* The diff engine on its own: get_diff and ShowDiff.run applied to two    *)
(* files. A file is a byte sequence over a letter, carriage return and     *)
(* line feed (all valid UTF-8).                                            *)
(***************************************************************************)
CR == "\r"
LF == "\n"
DiffBytes == {"x", CR, LF}
DiffContents == UNION {[1..n -> DiffBytes] : n \in 0..MaxDiffLen}
NoDifferences == <<"No differences.">>

\* What reading in text mode makes of the bytes. Python 3's open(path, 'r',
\* encoding='utf-8') reads with universal newlines: "\r\n" and "\r" become
\* "\n". Python 2's open(path, 'r') on POSIX hands the bytes on as they are.
RECURSIVE UniversalNewlines(_)
UniversalNewlines(bs) ==
    IF bs = <<>> THEN <<>>
    ELSE IF bs[1] = CR /\ Len(bs) >= 2 /\ bs[2] = LF
    THEN <<LF>> \o UniversalNewlines(From(bs, 2))
    ELSE IF bs[1] = CR THEN <<LF>> \o UniversalNewlines(Tail(bs))
    ELSE <<bs[1]>> \o UniversalNewlines(Tail(bs))

ReadText(py2, bs) == IF py2 THEN bs ELSE UniversalNewlines(bs)

\* f.readlines(): the text cut after each "\n".
RECURSIVE ReadLines(_)
ReadLines(text) ==
    IF text = <<>> THEN <<>>
    ELSE LET nl == Find(text, LF, 0)
         IN  IF nl = -1 THEN <<text>>
             ELSE <<Upto(text, nl + 1)>> \o ReadLines(From(text, nl + 1))

\* difflib.SequenceMatcher.find_longest_match without junk: the longest
\* block common to a and b, the earliest in a, then the earliest in b, as
\* <<i, j, size>> with 1-based starts; size 0 when there is none.
LongestMatch(a, b) ==
    LET blocks == {m \in (1..Len(a)) \X (1..Len(b)) \X (1..Len(a)) :
                      /\ m[1] + m[3] - 1 <= Len(a)
                      /\ m[2] + m[3] - 1 <= Len(b)
                      /\ SubSeq(a, m[1], m[1] + m[3] - 1) = SubSeq(b, m[2], m[2] + m[3] - 1)}
        better(m, n) == \/ m[3] > n[3]
                        \/ m[3] = n[3] /\ m[1] < n[1]
                        \/ m[3] = n[3] /\ m[1] = n[1] /\ m[2] <= n[2]
    IN  IF blocks = {} THEN <<1, 1, 0>>
        ELSE CHOOSE m \in blocks : \A n \in blocks : better(m, n)

\* Each line of ls with the prefix in front, concatenated.
RECURSIVE Prefixed(_, _)
Prefixed(prefix, ls) ==
    IF ls = <<>> THEN <<>> ELSE <<prefix>> \o ls[1] \o Prefixed(prefix, Tail(ls))

\* The lines of one hunk covering all of a and b: the matching blocks as
\* context, what lies between them as removed and added lines.
RECURSIVE HunkLines(_, _)
HunkLines(a, b) ==
    LET m == LongestMatch(a, b)
    IN  IF a = <<>> /\ b = <<>> THEN <<>>
        ELSE IF m[3] = 0 THEN Prefixed("-", a) \o Prefixed("+", b)
        ELSE HunkLines(SubSeq(a, 1, m[1] - 1), SubSeq(b, 1, m[2] - 1))
             \o Prefixed(" ", SubSeq(a, m[1], m[1] + m[3] - 1))
             \o HunkLines(SubSeq(a, m[1] + m[3], Len(a)), SubSeq(b, m[2] + m[3], Len(b)))

\* difflib._format_range_unified(0, length)
FormatRange(length) ==
    IF length = 1 THEN <<"1">>
    ELSE IF length = 0 THEN <<"0", ",", "0">>
    ELSE <<"1", ",", ToString(length)>>

\* ''.join(difflib.unified_diff(a, b, fromfile, tofile)). Nothing for equal
\* line sequences. The files of the model have fewer lines than two hunks
\* need between them (more than six unchanged lines), so the diff of
\* different sequences is the header and one hunk over all lines.
unified_diff(a, b, fromfile, tofile) ==
    IF a = b THEN <<>>
    ELSE <<"-", "-", "-", " ">> \o fromfile \o <<LF>>
         \o <<"+", "+", "+", " ">> \o tofile \o <<LF>>
         \o <<"@", "@", " ", "-">> \o FormatRange(Len(a)) \o <<" ", "+">>
         \o FormatRange(Len(b)) \o <<" ", "@", "@", LF>>
         \o HunkLines(a, b)

\* get_diff(from_file, to_file), given what the two files hold.
get_diff(py2, from_file, to_file, from_bytes, to_bytes) ==
    LET from_content == ReadLines(ReadText(py2, from_bytes))
        to_content == ReadLines(ReadText(py2, to_bytes))
    IN  unified_diff(from_content, to_content, from_file, to_file)

\* ShowDiff.run's view text: the diff, or 'No differences.' for an empty one.
ViewText(diff) == IF diff # <<>> THEN diff ELSE NoDifferences

FromFile == <<"A">>
ToFile == <<"B">>

DiffInit ==
    /\ diffIn \in [py2 : BOOLEAN, from_file : {FromFile}, to_file : {ToFile},
                   from_bytes : DiffContents, to_bytes : DiffContents]
    /\ diffOut = NoDiffOut
    /\ selected = <<>>
    /\ pathIn = NoPathIn
    /\ pathOut = <<>>
    /\ EngineInit
    /\ clock = 0
    /\ ~S.history_on_close
    /\ S.history_retention = 0

\* ShowDiff.run(from_file, to_file)
ShowDiff ==
    /\ ~diffOut.done
    /\ LET diff == get_diff(diffIn.py2, diffIn.from_file, diffIn.to_file,
                            diffIn.from_bytes, diffIn.to_bytes)
       IN  diffOut' = [done |-> TRUE, diff |-> diff, view |-> ViewText(diff)]
    /\ UNCHANGED <<diffIn, pathIn, pathOut, selected, clock, S, files, dirs, store, runs, events, ui,
                   wiped>>

SpecDiff == DiffInit /\ [][ShowDiff]_vars

(***************************************************************************)
(* Overlapping runs: one file saved from an empty history, with save-time  *)
(* snapshots and a retention of one day, and a clock that runs on into the *)
(* second after the next while the threads are at work.                    *)
(***************************************************************************)
\* Clock ticks that may pass in this specification.
OverlapTicks == 3

OverlapInit ==
    /\ Init
    /\ clock = 0
    /\ ~S.history_on_close
    /\ S.history_retention = 1

\* Time passes by a tick.
OverlapTick ==
    /\ clock < OverlapTicks
    /\ clock' = clock + 1
    /\ UNCHANGED <<pathVars, diffVars, selected, S, files, dirs, store, runs, events, ui, wiped>>

OverlapNext ==
    \/ \E c \in Contents : Save(FileA, c)
    \/ \E r \in DOMAIN runs : SizeGate(r)
    \/ \E r \in DOMAIN runs : MakeDir(r)
    \/ \E r \in DOMAIN runs : ListHistory(r)
    \/ \E r \in DOMAIN runs : Compare(r)
    \/ \E r \in DOMAIN runs : CopyOpen(r)
    \/ \E r \in DOMAIN runs : CopyWrite(r)
    \/ \E r \in DOMAIN runs : Sweep(r)
    \/ OverlapTick

SpecOverlap == OverlapInit /\ [][OverlapNext]_vars

(***************************************************************************)
(* The incremental-diff flow on its own: HistoryIncrementalDiff.run over a *)
(* history of up to MaxTimeline snapshots of FileA, then the quick panel's *)
(* call of on_done. Nothing else runs, so the history stays as listed.     *)
(***************************************************************************)
MaxTimeline == 3

\* The path glob returns for a snapshot: os.path.join(history_dir, name).
SnapshotPath(k) == k[1] \o <<SLASH>> \o <<k[2]>> \o <<".">> \o k[3]

\* ShowDiff.run(from_file, to_file) on a fresh view: the two files are read
\* as they are now and the diff text, or 'No differences.', is inserted.
ShowDiffView(diff) == [done |-> TRUE, diff |-> diff, view |-> ViewText(diff)]

show_diff(py2, from_file, to_file) ==
    /\ diffIn' = [py2 |-> py2,
                  from_file |-> SnapshotPath(from_file), to_file |-> SnapshotPath(to_file),
                  from_bytes |-> store[from_file].content,
                  to_bytes |-> store[to_file].content]
    /\ diffOut' = ShowDiffView(get_diff(py2, SnapshotPath(from_file), SnapshotPath(to_file),
                                        store[from_file].content, store[to_file].content))

\* history_files[index]: Python counts a list's positions from 0.
Item(list, index) == list[index + 1]

\* A variant of on_done that hands the two files over the other way round.
IncrementalDiff_on_done_reversed(index) ==
    /\ ui.cmd = "incremental_diff"
    /\ ui.shown
    /\ selected = <<>>
    /\ index \in -1..(Len(ui.panel) - 1)
    /\ selected' = <<index>>
    /\ IF index = -1
       THEN UNCHANGED <<ui, diffIn, diffOut>>
       ELSE IF index = Len(ui.panel) - 1
       THEN /\ ui' = [ui EXCEPT !.status = NO_INCREMENTAL_DIFF]
            /\ UNCHANGED <<diffIn, diffOut>>
       ELSE /\ show_diff(diffIn.py2, Item(ui.panel, index), Item(ui.panel, index + 1))
            /\ ui' = ui
    /\ UNCHANGED <<pathVars, clock, S, files, dirs, store, runs, events, wiped>>

\* on_done(index) of HistoryIncrementalDiff.run, called by the quick panel
\* with the position chosen in history_files (ui.panel), or -1 on escape.
IncrementalDiff_on_done(index) ==
    /\ ui.cmd = "incremental_diff"
    /\ ui.shown
    /\ selected = <<>>
    /\ index \in -1..(Len(ui.panel) - 1)
    /\ selected' = <<index>>
    /\ IF index = -1
       THEN UNCHANGED <<ui, diffIn, diffOut>>
       ELSE IF index = Len(ui.panel) - 1
       THEN /\ ui' = [ui EXCEPT !.status = NO_INCREMENTAL_DIFF]
            /\ UNCHANGED <<diffIn, diffOut>>
       ELSE /\ show_diff(diffIn.py2, Item(ui.panel, index + 1), Item(ui.panel, index))
            /\ ui' = ui
    /\ UNCHANGED <<pathVars, clock, S, files, dirs, store, runs, events, wiped>>

\* The histories of FileA browsed: any snapshots named after the seconds
\* 0..MaxTimeline-1, each with any content and any modification time.
Timelines ==
    UNION {[{<<HistoryDir(FileA), t, FileName(FileA)>> : t \in ts} ->
               [content : Contents, mtime : 0..MaxTicks, ino : {1}]] :
           ts \in SUBSET (0..(MaxTimeline - 1))}

IncDiffInit ==
    /\ clock = MaxTicks
    /\ S = [history_on_close |-> FALSE, file_size_limit |-> 1, history_retention |-> 1]
    /\ files = [f \in Files |-> [content |-> ContentX, mtime |-> 0]]
    /\ store \in Timelines
    /\ dirs = IF DOMAIN store = {} THEN {} ELSE MakeDirs(HistoryDir(FileA))
    /\ runs = <<>>
    /\ events = 0
    /\ ui = NoUi
    /\ wiped = FALSE
    /\ pathIn = NoPathIn
    /\ pathOut = <<>>
    /\ diffIn \in {[NoDiffIn EXCEPT !.py2 = b] : b \in BOOLEAN}
    /\ diffOut = NoDiffOut
    /\ selected = <<>>

IncDiffNext ==
    \/ \E f \in Files : ui = NoUi /\ HistoryIncrementalDiff(f)
    \/ \E index \in -1..(MaxTimeline - 1) : IncrementalDiff_on_done(index)

SpecIncDiff == IncDiffInit /\ [][IncDiffNext]_vars

(***************************************************************************)
(* Properties.                                                             *)
(***************************************************************************)
\* The snapshots named after file f in f's backup directory.
SnapshotsOf(f) == {k \in Keys : k[1] = HistoryDir(f) /\ k[3] = FileName(f)}

\* n days, in ticks.
Days(n) == n * TicksPerDay

\* No snapshot was ever deleted: no command ran and no sweep removed one.
NothingDeleted == ui = NoUi /\ \A r \in DOMAIN runs : runs[r].removed = {}

\* The history tree was empty when the plugin was loaded, and nothing was
\* deleted since.
FreshTree == NothingDeleted /\ \A k \in Keys : store[k].ino # 0

\* C1: when a file under the size limit is saved twice with the same
\* content and both process_history runs have returned (the history being
\* empty before, and nothing else happening), exactly one snapshot of the
\* file exists.
C1_SameContentOneSnapshot ==
    \A f \in Files :
        (/\ FreshTree
         /\ events = 2
         /\ Len(runs) = 2
         /\ \A r \in DOMAIN runs :
               /\ runs[r].file = f
               /\ runs[r].trigger = "post_save"
               /\ runs[r].pc \in Returned
               /\ Len(runs[r].saved) <= S.file_size_limit
         /\ runs[1].saved = runs[2].saved)
        => Cardinality(SnapshotsOf(f)) = 1

\* C2: when a file under the size limit is saved N times with N pairwise
\* distinct contents, one run after the other, and all runs have returned
\* (the history being empty before, nothing deleted), exactly N snapshots
\* of the file exist and their timestamps ascend in save order.
C2_DistinctSavesAllKept ==
    \A f \in Files :
        (/\ FreshTree
         /\ events = Len(runs)
         /\ \A r \in DOMAIN runs :
               /\ runs[r].file = f
               /\ runs[r].trigger = "post_save"
               /\ runs[r].pc \in Returned
               /\ runs[r].alone
               /\ Len(runs[r].saved) <= S.file_size_limit
         /\ \A r1, r2 \in DOMAIN runs : r1 # r2 => runs[r1].saved # runs[r2].saved)
        => /\ Cardinality(SnapshotsOf(f)) = Len(runs)
           /\ \A r1, r2 \in DOMAIN runs :
                 r1 < r2 => \E k1, k2 \in SnapshotsOf(f) :
                               /\ store[k1].content = runs[r1].saved
                               /\ store[k2].content = runs[r2].saved
                               /\ k1[2] < k2[2]

\* C3: a run whose size gate read a size above file_size_limit has returned
\* there, having listed nothing and opened no snapshot; and a file none of
\* whose runs got past the gate has no snapshot but the one an earlier
\* session left, untouched.
C3_TooLargeNeverStored ==
    /\ \A r \in DOMAIN runs :
          runs[r].gsize > S.file_size_limit =>
             /\ runs[r].pc = "too_large"
             /\ runs[r].key = <<>>
             /\ runs[r].list = <<>>
             /\ runs[r].removed = {}
    /\ \A f \in Files :
          (\A r \in DOMAIN runs :
              runs[r].file = f => runs[r].pc \in {"size", "too_large", "TypeError"})
          => \A k \in SnapshotsOf(f) : k = EarlierSnapshot /\ store[k] = EarlierStore[k]

\* C3's case: a run was rejected by the size gate for a file that has a
\* snapshot.
C3_Witness ==
    \E r \in DOMAIN runs :
        /\ runs[r].pc = "too_large"
        /\ runs[r].gsize > S.file_size_limit
        /\ SnapshotsOf(runs[r].file) # {}

\* C4 as claimed: when a process_history call for a file returns, no
\* snapshot of the file that was at least history_retention + 1 days old
\* is left.
C4_NextCallDeletes ==
    [][\A r \in DOMAIN runs :
          (runs[r].pc \notin Returned /\ runs'[r].pc \in Returned) =>
             \A k \in SnapshotsOf(runs[r].file) :
                 store[k].mtime <= clock - Days(S.history_retention + 1)
                 => k \notin DOMAIN store']_vars

\* C4 as amended: only a call that gets past both gates sweeps. Once such a
\* call has returned, no snapshot it listed is left with a modification time
\* history_retention + 1 days or more before the call's now; what a sweep
\* removed was more than history_retention days old (so a snapshot of
\* history_retention - 1 days is kept); and a call that returned at a gate
\* examined nothing.
C4_SweepByAge ==
    \A r \in DOMAIN runs :
        /\ runs[r].pc = "stored" =>
              \A i \in DOMAIN runs[r].list :
                  runs[r].list[i] \in Keys =>
                     store[runs[r].list[i]].mtime
                        > runs[r].now - Days(S.history_retention + 1)
        /\ \A e \in runs[r].removed : e[2] < runs[r].now - Days(S.history_retention)
        /\ \A e \in runs[r].kept : e[2] > runs[r].now - Days(S.history_retention + 1)
        /\ runs[r].pc \in {"too_large", "identical"} =>
              runs[r].removed = {} /\ runs[r].kept = {}

\* C4's case: one sweep removed a snapshot history_retention + 1 days old,
\* and one kept a snapshot that was history_retention - 1 days old (to
\* within MaxTicks ticks).
C4_Witness ==
    /\ S.history_retention >= 2
    /\ \E r \in DOMAIN runs : \E e \in runs[r].removed :
          /\ runs[r].pc = "stored"
          /\ e[2] <= runs[r].now - Days(S.history_retention + 1)
    /\ \E r \in DOMAIN runs : \E e \in runs[r].kept :
          /\ runs[r].pc = "stored"
          /\ e[2] >= runs[r].now - Days(S.history_retention - 1)
          /\ e[2] <= runs[r].now - Days(S.history_retention - 1) + MaxTicks

\* C5: the delete-all command always completes: it raises nothing and
\* reports the deletion on the status bar, whether the root directory
\* existed or not.
C5_DeleteAllAlwaysCompletes ==
    ui.cmd = "delete_all" => ui.error = "" /\ ui.status = HISTORY_DELETED_MSG

\* The listing commands.
Listing == {"open", "compare", "incremental_diff"}

\* C6: as long as no snapshot was stored since the last delete-all, the
\* listing of every file is empty, and a listing command run then behaves
\* as on an empty history: open and compare report that no history was
\* found, incremental diff that no diff was found; no list is shown and
\* nothing is raised.
C6_EmptyAfterDeleteAll ==
    /\ wiped => \A f \in Files : Glob(HistoryDir(f), FileName(f)) = {}
    /\ (ui.afterWipe /\ ui.cmd \in Listing) =>
          /\ ui.status = IF ui.cmd = "incremental_diff"
                         THEN NO_INCREMENTAL_DIFF ELSE NO_HISTORY_MSG
          /\ ~ui.shown
          /\ ui.panel = <<>>
          /\ ui.error = ""

\* C6's case: a listing command ran after a delete-all for a file of which a
\* snapshot had been stored.
C6_Witness ==
    /\ ui.afterWipe
    /\ ui.cmd \in Listing
    /\ \E r \in DOMAIN runs : runs[r].file = ui.file /\ runs[r].pc = "stored"

\* C7: every snapshot a run lists, examines or removes is a snapshot of the
\* run's own file: it lies in that file's backup directory and carries that
\* file's base name.
C7_OwnSnapshotsOnly ==
    \A r \in DOMAIN runs :
        LET own(k) == k[1] = HistoryDir(runs[r].file) /\ k[3] = FileName(runs[r].file)
        IN  /\ \A i \in DOMAIN runs[r].list : own(runs[r].list[i])
            /\ \A e \in runs[r].removed \cup runs[r].kept : own(e[1])

\* The two calls of the specification's path-mirroring example:
\* /home/u/proj/a.txt under /root, and C:\Users\u\proj\a.txt under C:\root.
PosixExample ==
    [system |-> "Linux", style |-> "posix", dirs |-> <<Home, U, Proj>>,
     file_path |-> PosixPath(<<Home, U, Proj>>), history_path |-> PosixRoot]

WindowsExample ==
    [system |-> "Windows", style |-> "drive", dirs |-> <<Users, U, Proj>>,
     file_path |-> DrivePath(<<Users, U, Proj>>), history_path |-> WindowsRoot]

C9_ExactlyOneTrigger ==
    \A r \in DOMAIN runs :
        /\ runs[r].trigger = (IF S.history_on_close THEN "close" ELSE "post_save")
        /\ runs[r].pc # "TypeError"

\* C10: once ShowDiff has run, the diff is empty exactly when the two files
\* hold the same bytes; when they differ the diff starts with the header
\* naming both files; and the view shows 'No differences.' exactly when the
\* diff is empty.
C10_EmptyDiffIffIdentical ==
    diffOut.done =>
        /\ diffOut.diff = <<>> <=> diffIn.from_bytes = diffIn.to_bytes
        /\ diffIn.from_bytes # diffIn.to_bytes =>
              StartsWith(diffOut.diff,
                         <<"-", "-", "-", " ">> \o diffIn.from_file \o <<LF>>
                         \o <<"+", "+", "+", " ">> \o diffIn.to_file \o <<LF>>)
        /\ diffOut.view = NoDifferences <=> diffOut.diff = <<>>

\* C11: a snapshot, once created, is not written again: the copy of a
\* process_history run never opens a path at which a snapshot exists.
C11_SnapshotsImmutable ==
    [][\A r \in DOMAIN runs :
          (runs[r].pc = "copy" /\ runs'[r].pc = "write") =>
             runs'[r].key \notin DOMAIN store]_vars

\* C12: a snapshot that a run has finished writing carries the modification
\* time of the file it was copied from (the file having been saved once).
C12_SnapshotKeepsFileTime ==
    \A r \in DOMAIN runs :
        (/\ runs[r].pc \in {"sweep", "stored"}
         /\ runs[r].key \in Keys
         /\ store[runs[r].key].ino = runs[r].ino
         /\ store[runs[r].key].content = runs[r].saved
         /\ \A q \in DOMAIN runs : q # r => runs[q].file # runs[r].file
         /\ events = Len(runs))
        => store[runs[r].key].mtime = files[runs[r].file].mtime

\* C13: a reader never meets a snapshot with partial content: the snapshot a
\* run is about to compare its file against holds a complete file content.
C13_NoPartialSnapshotRead ==
    \A r \in DOMAIN runs :
        (runs[r].pc = "cmp" /\ runs[r].list[1] \in Keys)
        => store[runs[r].list[1]].content \in Contents

\* C14: a run that has listed snapshots does not end in an unhandled error
\* at the comparison or in the sweep when a listed snapshot is gone.
C14_DisappearedIsRecoverable ==
    [][\A r \in DOMAIN runs :
          runs[r].pc \in {"cmp", "sweep"} => runs'[r].pc # "OSError"]_vars

\* C15: the steps of process_history are gates in order. The step at the
\* size gate changes nothing in the history tree and leads to the rejection
\* or to the directory step; the steps up to the comparison write and delete
\* no snapshot; a run is rejected only from the size gate and found identical
\* only from the comparison, having opened no snapshot and swept nothing.
C15_GatesInOrder ==
    [][\A r \in DOMAIN runs :
          /\ (runs[r].pc = "size" /\ runs'[r] # runs[r]) =>
                /\ dirs' = dirs
                /\ store' = store
                /\ runs'[r].pc \in {"too_large", "mkdir"}
          /\ (runs[r].pc \in {"mkdir", "list", "cmp"} /\ runs'[r] # runs[r]) =>
                /\ store' = store
                /\ runs[r].pc = "mkdir" => runs'[r].pc = "list"
                /\ runs[r].pc = "list" => runs'[r].pc \in {"cmp", "copy"}
                /\ runs[r].pc = "cmp" => runs'[r].pc \in {"identical", "copy", "OSError"}
          /\ runs[r].pc \in {"too_large", "identical"} => runs'[r] = runs[r]
          /\ runs'[r].pc = "too_large" => runs'[r].list = <<>>
          /\ runs'[r].pc \in {"too_large", "identical"} =>
                /\ runs'[r].key = <<>>
                /\ runs'[r].removed = {}
                /\ runs'[r].kept = {}]_vars

\* C15's case: one run was rejected by the size gate and one was stopped at
\* the identical-content gate, and the history tree is as it was before both.
C15_Witness ==
    /\ \E r \in DOMAIN runs : runs[r].pc = "too_large"
    /\ \E r \in DOMAIN runs : runs[r].pc = "identical"
    /\ store = EarlierStore
    /\ dirs = MakeDirs(HistoryDir(FileA))

C17_NameOrderIsTimeOrder ==
    \A f \in Files : \A k1, k2 \in SnapshotsOf(f) :
        k1[2] > k2[2] => store[k1].mtime >= store[k2].mtime

\* C18: when no process_history run is in progress, no delete-all was run,
\* and a file within the size limit has been saved through the editor, the
\* file has snapshots and each newest one (by modification time) holds the
\* file's current content.
C18_NewestIsCurrent ==
    \A f \in Files :
        (/\ \A r \in DOMAIN runs : runs[r].pc \in Ended
         /\ \E r \in DOMAIN runs : runs[r].file = f /\ runs[r].trigger = "post_save"
         /\ ui = NoUi
         /\ Len(files[f].content) <= S.file_size_limit)
        => /\ SnapshotsOf(f) # {}
           /\ \A k \in SnapshotsOf(f) :
                 (\A k2 \in SnapshotsOf(f) : store[k].mtime >= store[k2].mtime)
                 => store[k].content = files[f].content

\* C20: the sweep step of a process_history run that overlaps with no other
\* run never removes the snapshot that this same run has written (the entry
\* under the run's own new name, holding the content it saved).
C20_SweepSparesOwnSnapshot ==
    [][\A r \in DOMAIN runs :
          (/\ runs[r].pc = "sweep"
           /\ runs'[r] # runs[r]
           /\ runs[r].alone
           /\ r = Len(runs)
           /\ runs[r].key \in DOMAIN store
           /\ store[runs[r].key].content = runs[r].saved)
          => runs[r].key \in DOMAIN store']_vars

\* C19: in the incremental-diff flow over the newest-first timeline T of
\* length L: with L < 2 the command reports 'No incremental diff found' and
\* opens no panel; otherwise the panel offers T, and after the selection of
\* N: for N = -1 nothing has happened; for N = L-1 the status is 'No
\* incremental diff found' and no diff was computed; for 0 <= N < L-1 the
\* diff shown is the one from T[N+1], the older, to T[N], the newer.
C19_IncrementalDiffFlow ==
    ui.cmd = "incremental_diff" =>
        LET timeline == Glob(HistoryDir(ui.file), FileName(ui.file))
            L == Cardinality(timeline)
            T == [N \in 0..(Len(ui.panel) - 1) |-> Item(ui.panel, N)]
        IN  IF L < 2
            THEN /\ ui.status = NO_INCREMENTAL_DIFF
                 /\ ~ui.shown
                 /\ selected = <<>>
                 /\ ~diffOut.done
            ELSE /\ ui.shown
                 /\ ui.panel \in SortedNewestFirst(timeline)
                 /\ selected = <<>> => ui.status = "" /\ ~diffOut.done
                 /\ selected # <<>> =>
                       LET N == selected[1]
                       IN  /\ N = -1 => ui.status = "" /\ ~diffOut.done /\ diffIn.from_file = <<>>
                           /\ N = L - 1 => ui.status = NO_INCREMENTAL_DIFF /\ ~diffOut.done
                           /\ (0 <= N /\ N < L - 1) =>
                                 /\ ui.status = ""
                                 /\ diffOut.done
                                 /\ diffIn.from_file = SnapshotPath(T[N + 1])
                                 /\ diffIn.to_file = SnapshotPath(T[N])
                                 /\ diffIn.from_bytes = store[T[N + 1]].content
                                 /\ diffIn.to_bytes = store[T[N]].content
                                 /\ store[T[N + 1]].mtime <= store[T[N]].mtime
                                 /\ (diffOut.diff = <<>>) =
                                        (ReadLines(ReadText(diffIn.py2, diffIn.from_bytes))
                                         = ReadLines(ReadText(diffIn.py2, diffIn.to_bytes)))

\* A timeline of three snapshots of different modification times, and the
\* middle position was selected: the diff from the oldest to the middle one
\* is shown and is not empty.
C19_Witness ==
    /\ ui.cmd = "incremental_diff"
    /\ Len(ui.panel) = MaxTimeline
    /\ selected = <<1>>
    /\ diffOut.done
    /\ diffOut.diff # <<>>
    /\ diffIn.from_file = SnapshotPath(ui.panel[3])
    /\ store[ui.panel[3]].mtime < store[ui.panel[2]].mtime

=============================================================================
